---- MODULE Spec2Model ----
(***************************************************************************)
(* Model of the cural crate (src/src/process.rs, src/src/module.rs):       *)
(* Process::all, Process::find, Process::get_module,                       *)
(* Process::get_all_modules, the derived Clone of Process and the end of   *)
(* life of a Process value, on top of a model of the ToolHelp snapshot     *)
(* service, OpenProcess and CloseHandle.                                   *)
(*                                                                         *)
(* Every action is one OS call of one running call, followed by the code   *)
(* that runs up to the next OS call.                                       *)
(***************************************************************************)
EXTENDS Integers, Sequences, FiniteSets, Bags, TLC

\* ---------------------------------------------------------------- bounds
MaxByte == 1        \* name bytes range over 0..MaxByte (0 is the terminator)
BufLen == 3         \* capacity of the fixed name buffer (szExeFile, szModule)
MaxProcs == 2       \* longest OS process list; process ids are 1..MaxProcs
MaxMods == 2        \* longest module list of one process
MaxAddr == 1        \* module base addresses are 1..MaxAddr
MaxCalls == 2       \* calls started in one behaviour
MaxOwned == 2       \* Process values the caller may hold when it clones one
MemSize == 2        \* the target's mapped addresses are 0..MemSize-1
MaxSize == 2        \* size_of::<T>() ranges over 1..MaxSize

\* -------------------------------------------------------------- OS values
\* INVALID_HANDLE_VALUE is -1 as a pointer-sized integer.
INVALID_HANDLE_VALUE == 0 - 1
\* The null handle, which HANDLE::is_invalid also rejects.
NULL_HANDLE == 0

\* The callers; Main is the one that runs in the sequential specifications.
Threads == {"c1", "c2"}
Main == "c1"
Bytes == 0..MaxByte
NameBufs == [1..BufLen -> Bytes]
Pids == 1..MaxProcs

\* The buffer that holds name n, a terminating zero, and `fill` in the bytes
\* after the terminator (the OS leaves them undefined).
Terminated(n, fill) ==
  [i \in 1..BufLen |-> IF i <= Len(n) THEN n[i]
                       ELSE IF i = Len(n) + 1 THEN 0 ELSE fill]

\* The name buffers of the processes and modules of the modelled system: a
\* zero-padded name, the same name followed by garbage, and a longer name.
ImageBufs ==
  {Terminated(<<1>>, 0), Terminated(<<1>>, MaxByte), Terminated(<<1, 1>>, 0)}
Access == {"ok", "err", "invalid"}

\* One process as the OS knows it: the two PROCESSENTRY32 fields the code
\* reads, and what OpenProcess(PROCESS_ALL_ACCESS) answers for it.
ProcRecords == [th32ProcessID : Pids, szExeFile : ImageBufs, access : Access]
\* One module as the OS knows it: the two MODULEENTRY32 fields the code reads.
ModRecords == [szModule : ImageBufs, modBaseAddr : 1..MaxAddr]

RECURSIVE SeqsUpTo(_, _)
SeqsUpTo(S, n) ==
  IF n = 0 THEN {<<>>}
  ELSE LET shorter == SeqsUpTo(S, n - 1)
       IN  shorter \cup {Append(s, x) : s \in {q \in shorter : Len(q) = n - 1}, x \in S}

\* Process lists the OS can hold: process ids are unique. Which id a process
\* has plays no part, so the i-th process of the list has id i.
ProcLists ==
  {l \in SeqsUpTo(ProcRecords, MaxProcs) :
     \A i \in 1..Len(l) : l[i].th32ProcessID = i}
ModLists == SeqsUpTo(ModRecords, MaxMods)

\* ------------------------------------------------------------ pure helpers
\* Variant of TakeWhileNonZero that drops the zero bytes and keeps every other
\* byte (filter in place of take_while).
RECURSIVE FilterNonZero(_, _)
FilterNonZero(buf, i) ==
  IF i > Len(buf) THEN <<>>
  ELSE (IF buf[i] = 0 THEN <<>> ELSE <<buf[i]>>) \o FilterNonZero(buf, i + 1)

\* entry.szExeFile.into_iter().take_while(|byte| byte != &0)
\*      .map(|byte| byte as char).collect::<String>()
RECURSIVE TakeWhileNonZero(_, _)
TakeWhileNonZero(buf, i) ==
  IF i > Len(buf) \/ buf[i] = 0 THEN <<>>
  ELSE <<buf[i]>> \o TakeWhileNonZero(buf, i + 1)

Decode(buf) == TakeWhileNonZero(buf, 1)

\* The strings a caller can ask for: the names of the images.
Names == {Decode(b) : b \in ImageBufs}

\* HANDLE::is_invalid
is_invalid(h) == h = INVALID_HANDLE_VALUE \/ h = NULL_HANDLE

\* PROCESSENTRY32::default() / MODULEENTRY32::default(): zeroed fields.
ZeroBuf == [i \in 1..BufLen |-> 0]
DefaultProcessEntry == [th32ProcessID |-> 0, szExeFile |-> ZeroBuf]
DefaultModuleEntry == [szModule |-> ZeroBuf, modBaseAddr |-> 0]

VARIABLES
  procs,      \* the OS process list (live OS state)
  mods,       \* mods[id]: the OS module list of process id (live OS state)
  handles,    \* the OS handle table: handles[h] for every handle value issued
  pc,         \* pc[t]: where caller t is in its current call
  fn,         \* fn[t]: the operation caller t is running
  name,       \* name[t]: the name / module argument of find / get_module
  self,       \* self[t]: the Process a module operation was called on
  snapshot,   \* snapshot[t]: the local `snapshot`
  entry,      \* entry[t]: the local `entry` record buffer
  handle,     \* handle[t]: the local `handle` of the record being opened
  result,     \* result[t]: the local `result` / `modules` vector
  ret,        \* ret[t]: the value the call returned
  owned,      \* bag of the Process values the callers hold
  calls,      \* number of calls started
  mem,        \* mem[a]: the byte at address a of the target process
  lastWrite,  \* the last Process::write call and what the OS did with it
  lastRead    \* the last Process::read call since then and what it returned

vars == <<procs, mods, handles, pc, fn, name, self, snapshot, entry, handle,
          result, ret, owned, calls, mem, lastWrite, lastRead>>

memory == <<mem, lastWrite, lastRead>>

locals == <<fn, name, self, snapshot, entry, handle, result>>

\* -------------------------------------------------------------- OS service
\* A handle value issued by the OS is its index in the handle table.
NewHandle == Len(handles) + 1

\* A snapshot is a point-in-time copy of a list, with the position of its
\* enumeration. A process-flavour snapshot is positioned before its first
\* record from the start (Process32Next needs no Process32First); a
\* module-flavour snapshot has no position until Module32First is called.
\* `by` and `op` record the caller and the operation that acquired the handle.
SnapshotObject(kind, content, t, f) ==
  [kind |-> kind, open |-> TRUE, closes |-> 0, staleUse |-> FALSE,
   content |-> content, cursor |-> 0,
   positioned |-> (kind = "snapshot_process"), by |-> t, op |-> f]

\* A process handle; `cursor` holds the id of the process it refers to.
ProcessObject(pid, t, f) ==
  [kind |-> "process", open |-> TRUE, closes |-> 0, staleUse |-> FALSE,
   content |-> <<>>, cursor |-> pid, positioned |-> TRUE, by |-> t, op |-> f]

\* CloseHandle(h): the handle is released; every call is counted.
CloseHandle(h) ==
  [handles EXCEPT ![h].open = FALSE, ![h].closes = @ + 1]

Min(a, b) == IF a < b THEN a ELSE b

\* Process32Next / Module32Next continue from the snapshot's position. What
\* Module32Next does on a snapshot on which Module32First was never called is
\* not defined by the OS contract: it may start at the first record, skip the
\* first record, or report that nothing is left.
NextStarts(h) ==
  IF handles[h].positioned THEN {handles[h].cursor}
  ELSE {0, Min(1, Len(handles[h].content)), Len(handles[h].content)}

\* TRUE and the record after position c while one is left.
HasNext(h, c) == c < Len(handles[h].content)
NextRecord(h, c) == handles[h].content[c + 1]
Advance(h, c) ==
  [handles EXCEPT ![h].cursor = c + 1, ![h].positioned = TRUE,
                  ![h].staleUse = @ \/ ~handles[h].open]
\* A FALSE answer leaves the snapshot at c.
NoAdvance(h, c) ==
  [handles EXCEPT ![h].cursor = c, ![h].positioned = TRUE,
                  ![h].staleUse = @ \/ ~handles[h].open]

\* Module32First: rewinds to the first record; FALSE on an empty list.
HasFirst(h) == Len(handles[h].content) > 0
FirstRecord(h) == handles[h].content[1]
Rewind(h) ==
  [handles EXCEPT ![h].cursor = Min(1, Len(handles[h].content)),
                  ![h].positioned = TRUE,
                  ![h].staleUse = @ \/ ~handles[h].open]

\* The PROCESSENTRY32 the OS writes for a record of the process list.
ProcessEntryOf(r) ==
  [th32ProcessID |-> r.th32ProcessID, szExeFile |-> r.szExeFile]

\* What OpenProcess(PROCESS_ALL_ACCESS, false, id) answers.
AccessOf(id) ==
  IF \E i \in 1..Len(procs) : procs[i].th32ProcessID = id
  THEN LET i == CHOOSE k \in 1..Len(procs) : procs[k].th32ProcessID = id
       IN  procs[i].access
  ELSE "err"

\* ------------------------------------------------------------ result values
Ok(v) == [kind |-> "Ok", value |-> v]
Err(k) == [kind |-> "Err", value |-> k]
NoRet == [kind |-> "None", value |-> <<>>]
MkProcess(id, n, h) == [id |-> id, name |-> n, handle |-> h]
MkModule(n, a) == [name |-> n, address |-> a]
NoProcess == MkProcess(0, <<>>, NULL_HANDLE)

\* ------------------------------------------------------- foreign memory
\* The addresses a caller passes: the mapped ones and one past them.
MemAddrs == 0..(MemSize - 1)
Addresses == 0..MemSize
Sizes == 1..MaxSize
\* The bytes of the values a caller writes.
ValueBytes == {0, 2}
Values == UNION {[1..n -> ValueBytes] : n \in Sizes}
\* The target's memory before any write.
InitialMemory == [a \in MemAddrs |-> 1]
NoWrite == [op |-> "none"]
NoRead == [op |-> "none"]

\* mem::zeroed::<T>() seen as size_of::<T>() bytes
Zeroed(n) == [i \in 1..n |-> 0]

\* The handle refers to an open process object.
HandleUsable(h) ==
  /\ h \in 1..Len(handles)
  /\ handles[h].kind = "process"
  /\ handles[h].open

\* How many of the n bytes at address a ReadProcessMemory / WriteProcessMemory
\* may copy: all n when the whole range is mapped and the handle is usable
\* (success), none (failure), or a proper prefix that lies in mapped memory
\* (partial copy, reported as a failure).
Copyable(h, a, n) ==
  IF ~HandleUsable(h) THEN {0}
  ELSE {k \in 0..n : \A i \in 0..(k - 1) : (a + i) \in MemAddrs}

Outcome(k, n) == IF k = n THEN "ok" ELSE IF k = 0 THEN "fail" ELSE "partial"

\* No call has been made yet. The module lists play no part in the process
\* registry and are left empty here.
Init ==
  /\ procs \in ProcLists
  /\ mem = InitialMemory
  /\ lastWrite = NoWrite
  /\ lastRead = NoRead
  /\ mods = [id \in Pids |-> <<>>]
  /\ handles = <<>>
  /\ pc = [t \in Threads |-> "idle"]
  /\ fn = [t \in Threads |-> "none"]
  /\ name = [t \in Threads |-> <<>>]
  /\ self = [t \in Threads |-> NoProcess]
  /\ snapshot = [t \in Threads |-> NULL_HANDLE]
  /\ entry = [t \in Threads |-> DefaultProcessEntry]
  /\ handle = [t \in Threads |-> NULL_HANDLE]
  /\ result = [t \in Threads |-> <<>>]
  /\ ret = [t \in Threads |-> NoRet]
  /\ owned = EmptyBag
  /\ calls = 0

\* ------------------------------------------------------------ Process::all
\* let mut result = Vec::new(); entry = default; CreateToolhelp32Snapshot
\* (TH32CS_SNAPPROCESS, 0): an OS error or the invalid sentinel returns Err.
AllCreateSnapshot(t) ==
  /\ pc[t] = "idle"
  /\ calls < MaxCalls
  /\ calls' = calls + 1
  /\ fn' = [fn EXCEPT ![t] = "all"]
  /\ name' = [name EXCEPT ![t] = <<>>]
  /\ self' = [self EXCEPT ![t] = NoProcess]
  /\ entry' = [entry EXCEPT ![t] = DefaultProcessEntry]
  /\ handle' = [handle EXCEPT ![t] = NULL_HANDLE]
  /\ result' = [result EXCEPT ![t] = <<>>]
  /\ \E outcome \in {"ok", "err", "invalid"} :
       \/ /\ outcome = "ok"
          /\ handles' = Append(handles, SnapshotObject("snapshot_process", procs, t, "all"))
          /\ snapshot' = [snapshot EXCEPT ![t] = NewHandle]
          /\ pc' = [pc EXCEPT ![t] = "all_next"]
          /\ ret' = [ret EXCEPT ![t] = NoRet]
       \/ /\ outcome = "err"
          /\ snapshot' = [snapshot EXCEPT ![t] = NULL_HANDLE]
          /\ pc' = [pc EXCEPT ![t] = "done"]
          /\ ret' = [ret EXCEPT ![t] = Err("Interrupted")]
          /\ UNCHANGED handles
       \/ /\ outcome = "invalid"
          /\ snapshot' = [snapshot EXCEPT ![t] = INVALID_HANDLE_VALUE]
          /\ pc' = [pc EXCEPT ![t] = "done"]
          /\ ret' = [ret EXCEPT ![t] = Err("Interrupted")]
          /\ UNCHANGED handles
  /\ UNCHANGED <<memory, procs, mods, owned>>

\* Variant of AllProcess32Next that keeps the snapshot handle in one place
\* shared by all callers: it enumerates the process snapshot created last.
AllProcess32Next_SharedSnapshot(t) ==
  /\ pc[t] = "all_next"
  /\ LET created == {h \in 1..Len(handles) : handles[h].kind = "snapshot_process"}
         shared == CHOOSE h \in created : \A g \in created : g <= h
     IN  \E c \in NextStarts(shared) :
           IF HasNext(shared, c)
           THEN /\ entry' = [entry EXCEPT ![t] = ProcessEntryOf(NextRecord(shared, c))]
                /\ handles' = Advance(shared, c)
                /\ pc' = [pc EXCEPT ![t] = "all_open"]
           ELSE /\ handles' = NoAdvance(shared, c)
                /\ pc' = [pc EXCEPT ![t] = "all_close"]
                /\ UNCHANGED entry
  /\ UNCHANGED <<memory, procs, mods, fn, name, self, snapshot, handle, result, ret, owned, calls>>

\* while Process32Next(snapshot, &mut entry) != 0 { let id = ...
AllProcess32Next(t) ==
  /\ pc[t] = "all_next"
  /\ \E c \in NextStarts(snapshot[t]) :
       IF HasNext(snapshot[t], c)
       THEN /\ entry' = [entry EXCEPT ![t] = ProcessEntryOf(NextRecord(snapshot[t], c))]
            /\ handles' = Advance(snapshot[t], c)
            /\ pc' = [pc EXCEPT ![t] = "all_open"]
       ELSE /\ handles' = NoAdvance(snapshot[t], c)
            /\ pc' = [pc EXCEPT ![t] = "all_close"]
            /\ UNCHANGED entry
  /\ UNCHANGED <<memory, procs, mods, fn, name, self, snapshot, handle, result, ret, owned, calls>>

\* Variant of AllOpenProcess that propagates an OpenProcess error as find
\* does, instead of skipping the record.
AllOpenProcess_AbortOnError(t) ==
  /\ pc[t] = "all_open"
  /\ LET id == entry[t].th32ProcessID
         access == AccessOf(id)
     IN  \/ /\ access = "err"
            /\ ret' = [ret EXCEPT ![t] = Err("Interrupted")]
            /\ pc' = [pc EXCEPT ![t] = "done"]
            /\ UNCHANGED <<handles, handle, result>>
         \/ /\ access = "invalid"
            /\ \E h \in {INVALID_HANDLE_VALUE, NULL_HANDLE} :
                 handle' = [handle EXCEPT ![t] = h]
            /\ pc' = [pc EXCEPT ![t] = "all_next"]
            /\ UNCHANGED <<handles, result, ret>>
         \/ /\ access = "ok"
            /\ handles' = Append(handles, ProcessObject(id, t, "all"))
            /\ handle' = [handle EXCEPT ![t] = NewHandle]
            /\ result' = [result EXCEPT ![t] =
                 Append(@, MkProcess(id, Decode(entry[t].szExeFile), NewHandle))]
            /\ pc' = [pc EXCEPT ![t] = "all_next"]
            /\ UNCHANGED ret
  /\ UNCHANGED <<memory, procs, mods, fn, name, self, snapshot, entry, owned, calls>>

\* Variant of AllOpenProcess that, after opening the process, skips a record
\* whose name is already in the result, without releasing the handle.
AllOpenProcess_SkipsDuplicateName(t) ==
  /\ pc[t] = "all_open"
  /\ LET id == entry[t].th32ProcessID
         access == AccessOf(id)
         c_name == Decode(entry[t].szExeFile)
     IN  \/ /\ access = "err"
            /\ UNCHANGED <<handles, handle, result>>
         \/ /\ access = "invalid"
            /\ \E h \in {INVALID_HANDLE_VALUE, NULL_HANDLE} :
                 handle' = [handle EXCEPT ![t] = h]
            /\ UNCHANGED <<handles, result>>
         \/ /\ access = "ok"
            /\ handles' = Append(handles, ProcessObject(id, t, "all"))
            /\ handle' = [handle EXCEPT ![t] = NewHandle]
            /\ result' = [result EXCEPT ![t] =
                 IF \E i \in 1..Len(@) : @[i].name = c_name THEN @
                 ELSE Append(@, MkProcess(id, c_name, NewHandle))]
  /\ pc' = [pc EXCEPT ![t] = "all_next"]
  /\ UNCHANGED <<memory, procs, mods, fn, name, self, snapshot, entry, ret, owned, calls>>

\* OpenProcess(PROCESS_ALL_ACCESS, false, id): Err(_) => continue,
\* handle.is_invalid() => continue, otherwise decode the name and push.
AllOpenProcess(t) ==
  /\ pc[t] = "all_open"
  /\ LET id == entry[t].th32ProcessID
         access == AccessOf(id)
     IN  \/ /\ access = "err"
            /\ UNCHANGED <<handles, handle, result>>
         \/ /\ access = "invalid"
            /\ \E h \in {INVALID_HANDLE_VALUE, NULL_HANDLE} :
                 handle' = [handle EXCEPT ![t] = h]
            /\ UNCHANGED <<handles, result>>
         \/ /\ access = "ok"
            /\ handles' = Append(handles, ProcessObject(id, t, "all"))
            /\ handle' = [handle EXCEPT ![t] = NewHandle]
            /\ result' = [result EXCEPT ![t] =
                 Append(@, MkProcess(id, Decode(entry[t].szExeFile), NewHandle))]
  /\ pc' = [pc EXCEPT ![t] = "all_next"]
  /\ UNCHANGED <<memory, procs, mods, fn, name, self, snapshot, entry, ret, owned, calls>>

\* Variant of AllCloseHandle that returns without releasing the snapshot.
AllCloseHandle_NoRelease(t) ==
  /\ pc[t] = "all_close"
  /\ ret' = [ret EXCEPT ![t] = Ok(result[t])]
  /\ pc' = [pc EXCEPT ![t] = "done"]
  /\ UNCHANGED <<memory, procs, mods, handles, locals, owned, calls>>

\* CloseHandle(snapshot); Ok(result)
AllCloseHandle(t) ==
  /\ pc[t] = "all_close"
  /\ handles' = CloseHandle(snapshot[t])
  /\ ret' = [ret EXCEPT ![t] = Ok(result[t])]
  /\ pc' = [pc EXCEPT ![t] = "done"]
  /\ UNCHANGED <<memory, procs, mods, locals, owned, calls>>

\* ----------------------------------------------------------- Process::find
\* entry = default; CreateToolhelp32Snapshot(TH32CS_SNAPPROCESS, 0): an OS
\* error or the invalid sentinel returns Err.
FindCreateSnapshot(t, n) ==
  /\ pc[t] = "idle"
  /\ calls < MaxCalls
  /\ calls' = calls + 1
  /\ fn' = [fn EXCEPT ![t] = "find"]
  /\ name' = [name EXCEPT ![t] = n]
  /\ self' = [self EXCEPT ![t] = NoProcess]
  /\ entry' = [entry EXCEPT ![t] = DefaultProcessEntry]
  /\ handle' = [handle EXCEPT ![t] = NULL_HANDLE]
  /\ result' = [result EXCEPT ![t] = <<>>]
  /\ \E outcome \in {"ok", "err", "invalid"} :
       \/ /\ outcome = "ok"
          /\ handles' = Append(handles, SnapshotObject("snapshot_process", procs, t, "find"))
          /\ snapshot' = [snapshot EXCEPT ![t] = NewHandle]
          /\ pc' = [pc EXCEPT ![t] = "find_next"]
          /\ ret' = [ret EXCEPT ![t] = NoRet]
       \/ /\ outcome = "err"
          /\ snapshot' = [snapshot EXCEPT ![t] = NULL_HANDLE]
          /\ pc' = [pc EXCEPT ![t] = "done"]
          /\ ret' = [ret EXCEPT ![t] = Err("Interrupted")]
          /\ UNCHANGED handles
       \/ /\ outcome = "invalid"
          /\ snapshot' = [snapshot EXCEPT ![t] = INVALID_HANDLE_VALUE]
          /\ pc' = [pc EXCEPT ![t] = "done"]
          /\ ret' = [ret EXCEPT ![t] = Err("Interrupted")]
          /\ UNCHANGED handles
  /\ UNCHANGED <<memory, procs, mods, owned>>

\* Variant of FindProcess32Next that gives up at the first record whose name
\* differs (`break` in place of `continue`).
FindProcess32Next_StopAtMismatch(t) ==
  /\ pc[t] = "find_next"
  /\ \E c \in NextStarts(snapshot[t]) :
       IF HasNext(snapshot[t], c)
       THEN LET e == ProcessEntryOf(NextRecord(snapshot[t], c))
            IN  /\ entry' = [entry EXCEPT ![t] = e]
                /\ handles' = Advance(snapshot[t], c)
                /\ IF name[t] # Decode(e.szExeFile)
                   THEN /\ pc' = [pc EXCEPT ![t] = "done"]
                        /\ ret' = [ret EXCEPT ![t] = Err("NotFound")]
                   ELSE /\ pc' = [pc EXCEPT ![t] = "find_open"]
                        /\ UNCHANGED ret
       ELSE /\ handles' = NoAdvance(snapshot[t], c)
            /\ pc' = [pc EXCEPT ![t] = "done"]
            /\ ret' = [ret EXCEPT ![t] = Err("NotFound")]
            /\ UNCHANGED entry
  /\ UNCHANGED <<memory, procs, mods, fn, name, self, snapshot, handle, result, owned, calls>>

\* while Process32Next(snapshot, &mut entry) != 0 { decode c_name;
\* if name != c_name { continue; } ... } Err(NotFound)
FindProcess32Next(t) ==
  /\ pc[t] = "find_next"
  /\ \E c \in NextStarts(snapshot[t]) :
       IF HasNext(snapshot[t], c)
       THEN LET e == ProcessEntryOf(NextRecord(snapshot[t], c))
            IN  /\ entry' = [entry EXCEPT ![t] = e]
                /\ handles' = Advance(snapshot[t], c)
                /\ pc' = [pc EXCEPT ![t] =
                     IF name[t] # Decode(e.szExeFile) THEN "find_next" ELSE "find_open"]
                /\ UNCHANGED ret
       ELSE /\ handles' = NoAdvance(snapshot[t], c)
            /\ pc' = [pc EXCEPT ![t] = "done"]
            /\ ret' = [ret EXCEPT ![t] = Err("NotFound")]
            /\ UNCHANGED entry
  /\ UNCHANGED <<memory, procs, mods, fn, name, self, snapshot, handle, result, owned, calls>>

\* Variant of FindOpenProcess that skips a record whose process cannot be
\* opened and goes on to the next record, as all does.
FindOpenProcess_SkipOnError(t) ==
  /\ pc[t] = "find_open"
  /\ LET id == entry[t].th32ProcessID
         access == AccessOf(id)
     IN  \/ /\ access \in {"err", "invalid"}
            /\ pc' = [pc EXCEPT ![t] = "find_next"]
            /\ UNCHANGED <<handles, handle>>
         \/ /\ access = "ok"
            /\ handles' = Append(handles, ProcessObject(id, t, "find"))
            /\ handle' = [handle EXCEPT ![t] = NewHandle]
            /\ pc' = [pc EXCEPT ![t] = "find_close"]
  /\ UNCHANGED <<memory, procs, mods, fn, name, self, snapshot, entry, result, ret, owned, calls>>

\* let handle = OpenProcess(PROCESS_ALL_ACCESS, false, id).map_err(..)?;
FindOpenProcess(t) ==
  /\ pc[t] = "find_open"
  /\ LET id == entry[t].th32ProcessID
         access == AccessOf(id)
     IN  \/ /\ access = "err"
            /\ ret' = [ret EXCEPT ![t] = Err("Interrupted")]
            /\ pc' = [pc EXCEPT ![t] = "done"]
            /\ UNCHANGED <<handles, handle>>
         \/ /\ access = "invalid"
            /\ \E h \in {INVALID_HANDLE_VALUE, NULL_HANDLE} :
                 handle' = [handle EXCEPT ![t] = h]
            /\ pc' = [pc EXCEPT ![t] = "find_close"]
            /\ UNCHANGED <<handles, ret>>
         \/ /\ access = "ok"
            /\ handles' = Append(handles, ProcessObject(id, t, "find"))
            /\ handle' = [handle EXCEPT ![t] = NewHandle]
            /\ pc' = [pc EXCEPT ![t] = "find_close"]
            /\ UNCHANGED ret
  /\ UNCHANGED <<memory, procs, mods, fn, name, self, snapshot, entry, result, owned, calls>>

\* Variant of FindCloseHandle without the handle.is_invalid() check.
FindCloseHandle_NoInvalidCheck(t) ==
  /\ pc[t] = "find_close"
  /\ handles' = CloseHandle(snapshot[t])
  /\ ret' = [ret EXCEPT ![t] =
       Ok(MkProcess(entry[t].th32ProcessID, Decode(entry[t].szExeFile), handle[t]))]
  /\ pc' = [pc EXCEPT ![t] = "done"]
  /\ UNCHANGED <<memory, procs, mods, locals, owned, calls>>

\* CloseHandle(snapshot); if handle.is_invalid() { return Err(InvalidData) }
\* return Ok(Self { id, name: c_name, handle })
FindCloseHandle(t) ==
  /\ pc[t] = "find_close"
  /\ handles' = CloseHandle(snapshot[t])
  /\ ret' = [ret EXCEPT ![t] =
       IF is_invalid(handle[t]) THEN Err("InvalidData")
       ELSE Ok(MkProcess(entry[t].th32ProcessID, Decode(entry[t].szExeFile), handle[t]))]
  /\ pc' = [pc EXCEPT ![t] = "done"]
  /\ UNCHANGED <<memory, procs, mods, locals, owned, calls>>

\* ----------------------------------------------------- Process::get_module
\* Variant of GetModuleCreateSnapshot without the is_invalid() check: the
\* invalid sentinel is taken for a snapshot and the loop is entered.
GetModuleCreateSnapshot_NoSentinelCheck(t, p, n) ==
  /\ pc[t] = "idle"
  /\ BagIn(p, owned)
  /\ calls < MaxCalls
  /\ calls' = calls + 1
  /\ fn' = [fn EXCEPT ![t] = "get_module"]
  /\ name' = [name EXCEPT ![t] = n]
  /\ self' = [self EXCEPT ![t] = p]
  /\ entry' = [entry EXCEPT ![t] = DefaultModuleEntry]
  /\ handle' = [handle EXCEPT ![t] = NULL_HANDLE]
  /\ result' = [result EXCEPT ![t] = <<>>]
  /\ \E outcome \in {"ok", "err", "invalid"} :
       \/ /\ outcome = "ok"
          /\ handles' = Append(handles, SnapshotObject("snapshot_module", mods[p.id], t, "get_module"))
          /\ snapshot' = [snapshot EXCEPT ![t] = NewHandle]
          /\ pc' = [pc EXCEPT ![t] = "gm_next"]
          /\ ret' = [ret EXCEPT ![t] = NoRet]
       \/ /\ outcome = "err"
          /\ snapshot' = [snapshot EXCEPT ![t] = NULL_HANDLE]
          /\ pc' = [pc EXCEPT ![t] = "done"]
          /\ ret' = [ret EXCEPT ![t] = Err("Interrupted")]
          /\ UNCHANGED handles
       \/ /\ outcome = "invalid"
          /\ snapshot' = [snapshot EXCEPT ![t] = INVALID_HANDLE_VALUE]
          /\ pc' = [pc EXCEPT ![t] = "gm_next"]
          /\ ret' = [ret EXCEPT ![t] = NoRet]
          /\ UNCHANGED handles
  /\ UNCHANGED <<memory, procs, mods, owned>>

\* entry = default; CreateToolhelp32Snapshot(TH32CS_SNAPMODULE |
\* TH32CS_SNAPMODULE32, self.id): an OS error or the invalid sentinel
\* returns Err.
GetModuleCreateSnapshot(t, p, n) ==
  /\ pc[t] = "idle"
  /\ BagIn(p, owned)
  /\ calls < MaxCalls
  /\ calls' = calls + 1
  /\ fn' = [fn EXCEPT ![t] = "get_module"]
  /\ name' = [name EXCEPT ![t] = n]
  /\ self' = [self EXCEPT ![t] = p]
  /\ entry' = [entry EXCEPT ![t] = DefaultModuleEntry]
  /\ handle' = [handle EXCEPT ![t] = NULL_HANDLE]
  /\ result' = [result EXCEPT ![t] = <<>>]
  /\ \E outcome \in {"ok", "err", "invalid"} :
       \/ /\ outcome = "ok"
          /\ handles' = Append(handles, SnapshotObject("snapshot_module", mods[p.id], t, "get_module"))
          /\ snapshot' = [snapshot EXCEPT ![t] = NewHandle]
          /\ pc' = [pc EXCEPT ![t] = "gm_next"]
          /\ ret' = [ret EXCEPT ![t] = NoRet]
       \/ /\ outcome = "err"
          /\ snapshot' = [snapshot EXCEPT ![t] = NULL_HANDLE]
          /\ pc' = [pc EXCEPT ![t] = "done"]
          /\ ret' = [ret EXCEPT ![t] = Err("Interrupted")]
          /\ UNCHANGED handles
       \/ /\ outcome = "invalid"
          /\ snapshot' = [snapshot EXCEPT ![t] = INVALID_HANDLE_VALUE]
          /\ pc' = [pc EXCEPT ![t] = "done"]
          /\ ret' = [ret EXCEPT ![t] = Err("Interrupted")]
          /\ UNCHANGED handles
  /\ UNCHANGED <<memory, procs, mods, owned>>

\* while Module32Next(snapshot, &mut entry) != 0 { decode c_module;
\* if c_module != module { continue; } ... } Err(NotFound)
GetModuleModule32Next(t) ==
  /\ pc[t] = "gm_next"
  /\ \E c \in NextStarts(snapshot[t]) :
       IF HasNext(snapshot[t], c)
       THEN LET e == NextRecord(snapshot[t], c)
            IN  /\ entry' = [entry EXCEPT ![t] = e]
                /\ handles' = Advance(snapshot[t], c)
                /\ pc' = [pc EXCEPT ![t] =
                     IF Decode(e.szModule) # name[t] THEN "gm_next" ELSE "gm_close"]
                /\ UNCHANGED ret
       ELSE /\ handles' = NoAdvance(snapshot[t], c)
            /\ pc' = [pc EXCEPT ![t] = "done"]
            /\ ret' = [ret EXCEPT ![t] = Err("NotFound")]
            /\ UNCHANGED entry
  /\ UNCHANGED <<memory, procs, mods, fn, name, self, snapshot, handle, result, owned, calls>>

\* Variant of GetModuleCloseHandle that releases the snapshot on a match and
\* goes on with the loop instead of returning.
GetModuleCloseHandle_KeepsLooping(t) ==
  /\ pc[t] = "gm_close"
  /\ handles' = CloseHandle(snapshot[t])
  /\ pc' = [pc EXCEPT ![t] = "gm_next"]
  /\ UNCHANGED <<memory, procs, mods, locals, ret, owned, calls>>

\* CloseHandle(snapshot); return Ok(Module { name: c_module, address })
GetModuleCloseHandle(t) ==
  /\ pc[t] = "gm_close"
  /\ handles' = CloseHandle(snapshot[t])
  /\ ret' = [ret EXCEPT ![t] =
       Ok(MkModule(Decode(entry[t].szModule), entry[t].modBaseAddr))]
  /\ pc' = [pc EXCEPT ![t] = "done"]
  /\ UNCHANGED <<memory, procs, mods, locals, owned, calls>>

\* ------------------------------------------------ Process::get_all_modules
\* modules = Vec::new(); entry = default; CreateToolhelp32Snapshot(
\* TH32CS_SNAPMODULE | TH32CS_SNAPMODULE32, self.id): an OS error or the
\* invalid sentinel returns Err.
GetAllModulesCreateSnapshot(t, p) ==
  /\ pc[t] = "idle"
  /\ BagIn(p, owned)
  /\ calls < MaxCalls
  /\ calls' = calls + 1
  /\ fn' = [fn EXCEPT ![t] = "get_all_modules"]
  /\ name' = [name EXCEPT ![t] = <<>>]
  /\ self' = [self EXCEPT ![t] = p]
  /\ entry' = [entry EXCEPT ![t] = DefaultModuleEntry]
  /\ handle' = [handle EXCEPT ![t] = NULL_HANDLE]
  /\ result' = [result EXCEPT ![t] = <<>>]
  /\ \E outcome \in {"ok", "err", "invalid"} :
       \/ /\ outcome = "ok"
          /\ handles' = Append(handles, SnapshotObject("snapshot_module", mods[p.id], t, "get_all_modules"))
          /\ snapshot' = [snapshot EXCEPT ![t] = NewHandle]
          /\ pc' = [pc EXCEPT ![t] = "gam_first"]
          /\ ret' = [ret EXCEPT ![t] = NoRet]
       \/ /\ outcome = "err"
          /\ snapshot' = [snapshot EXCEPT ![t] = NULL_HANDLE]
          /\ pc' = [pc EXCEPT ![t] = "done"]
          /\ ret' = [ret EXCEPT ![t] = Err("Interrupted")]
          /\ UNCHANGED handles
       \/ /\ outcome = "invalid"
          /\ snapshot' = [snapshot EXCEPT ![t] = INVALID_HANDLE_VALUE]
          /\ pc' = [pc EXCEPT ![t] = "done"]
          /\ ret' = [ret EXCEPT ![t] = Err("Interrupted")]
          /\ UNCHANGED handles
  /\ UNCHANGED <<memory, procs, mods, owned>>

\* Variant of GetAllModulesModule32First that uses Module32First only to
\* position the snapshot and does not push the record it wrote.
GetAllModulesModule32First_DropsFirst(t) ==
  /\ pc[t] = "gam_first"
  /\ handles' = Rewind(snapshot[t])
  /\ IF HasFirst(snapshot[t])
     THEN /\ entry' = [entry EXCEPT ![t] = FirstRecord(snapshot[t])]
          /\ pc' = [pc EXCEPT ![t] = "gam_next"]
          /\ UNCHANGED <<ret, result>>
     ELSE /\ ret' = [ret EXCEPT ![t] = Ok(result[t])]
          /\ pc' = [pc EXCEPT ![t] = "done"]
          /\ UNCHANGED <<entry, result>>
  /\ UNCHANGED <<memory, procs, mods, fn, name, self, snapshot, handle, owned, calls>>

\* if Module32First(snapshot, &mut entry) == 0 { return Ok(modules); }
\* otherwise the loop's first pass decodes and pushes the first record.
GetAllModulesModule32First(t) ==
  /\ pc[t] = "gam_first"
  /\ handles' = Rewind(snapshot[t])
  /\ IF HasFirst(snapshot[t])
     THEN LET e == FirstRecord(snapshot[t])
          IN  /\ entry' = [entry EXCEPT ![t] = e]
              /\ result' = [result EXCEPT ![t] =
                   Append(@, MkModule(Decode(e.szModule), e.modBaseAddr))]
              /\ pc' = [pc EXCEPT ![t] = "gam_next"]
              /\ UNCHANGED ret
     ELSE /\ ret' = [ret EXCEPT ![t] = Ok(result[t])]
          /\ pc' = [pc EXCEPT ![t] = "done"]
          /\ UNCHANGED <<entry, result>>
  /\ UNCHANGED <<memory, procs, mods, fn, name, self, snapshot, handle, owned, calls>>

\* if Module32Next(snapshot, &mut entry) == 0 { break; } otherwise the
\* loop's next pass decodes and pushes the record.
GetAllModulesModule32Next(t) ==
  /\ pc[t] = "gam_next"
  /\ \E c \in NextStarts(snapshot[t]) :
       IF HasNext(snapshot[t], c)
       THEN LET e == NextRecord(snapshot[t], c)
            IN  /\ entry' = [entry EXCEPT ![t] = e]
                /\ handles' = Advance(snapshot[t], c)
                /\ result' = [result EXCEPT ![t] =
                     Append(@, MkModule(Decode(e.szModule), e.modBaseAddr))]
                /\ pc' = [pc EXCEPT ![t] = "gam_next"]
       ELSE /\ handles' = NoAdvance(snapshot[t], c)
            /\ pc' = [pc EXCEPT ![t] = "gam_close"]
            /\ UNCHANGED <<entry, result>>
  /\ UNCHANGED <<memory, procs, mods, fn, name, self, snapshot, handle, ret, owned, calls>>

\* CloseHandle(snapshot); Ok(modules)
GetAllModulesCloseHandle(t) ==
  /\ pc[t] = "gam_close"
  /\ handles' = CloseHandle(snapshot[t])
  /\ ret' = [ret EXCEPT ![t] = Ok(result[t])]
  /\ pc' = [pc EXCEPT ![t] = "done"]
  /\ UNCHANGED <<memory, procs, mods, locals, owned, calls>>

\* -------------------------------------------------------- the caller's side
\* The values a returned result hands to the caller.
ReturnedProcesses(t) ==
  IF ret[t].kind # "Ok" THEN <<>>
  ELSE IF fn[t] = "all" THEN ret[t].value
  ELSE IF fn[t] = "find" THEN <<ret[t].value>>
  ELSE <<>>

RECURSIVE SeqToBag(_)
SeqToBag(s) ==
  IF s = <<>> THEN EmptyBag ELSE SetToBag({Head(s)}) (+) SeqToBag(Tail(s))

\* The call has returned: the caller takes the result and the call's locals
\* go out of scope.
Return(t) ==
  /\ pc[t] = "done"
  /\ owned' = owned (+) SeqToBag(ReturnedProcesses(t))
  /\ pc' = [pc EXCEPT ![t] = "idle"]
  /\ fn' = [fn EXCEPT ![t] = "none"]
  /\ name' = [name EXCEPT ![t] = <<>>]
  /\ self' = [self EXCEPT ![t] = NoProcess]
  /\ snapshot' = [snapshot EXCEPT ![t] = NULL_HANDLE]
  /\ entry' = [entry EXCEPT ![t] = DefaultProcessEntry]
  /\ handle' = [handle EXCEPT ![t] = NULL_HANDLE]
  /\ result' = [result EXCEPT ![t] = <<>>]
  /\ ret' = [ret EXCEPT ![t] = NoRet]
  /\ UNCHANGED <<memory, procs, mods, handles, calls>>

\* #[derive(Clone)] on Process: id, name and the raw HANDLE are copied.
Clone(t, p) ==
  /\ pc[t] = "idle"
  /\ BagIn(p, owned)
  /\ BagCardinality(owned) < MaxOwned
  /\ owned' = owned (+) SetToBag({MkProcess(p.id, p.name, p.handle)})
  /\ UNCHANGED <<memory, procs, mods, handles, pc, locals, ret, calls>>

\* A Process value goes out of scope. Process has no Drop implementation and
\* HANDLE is a plain Copy value: nothing is released.
Drop(t, p) ==
  /\ pc[t] = "idle"
  /\ BagIn(p, owned)
  /\ owned' = owned (-) SetToBag({p})
  /\ UNCHANGED <<memory, procs, mods, handles, pc, locals, ret, calls>>

\* The process registry and the caller's handling of Process values.
Next ==
  \E t \in {Main} :
    \/ AllCreateSnapshot(t)
    \/ AllProcess32Next(t)
    \/ AllOpenProcess(t)
    \/ AllCloseHandle(t)
    \/ \E n \in Names : FindCreateSnapshot(t, n)
    \/ FindProcess32Next(t)
    \/ FindOpenProcess(t)
    \/ FindCloseHandle(t)
    \/ Return(t)
    \/ \E p \in BagToSet(owned) : Clone(t, p)
    \/ \E p \in BagToSet(owned) : Drop(t, p)

Spec == Init /\ [][Next]_vars

\* The module resolver, started in the state a successful find leaves: one
\* accessible process, its open handle, and the Process value the caller got.
InitModules ==
  /\ \E r \in ProcRecords :
       /\ r.access = "ok"
       /\ procs = <<r>>
       /\ \E content \in ModLists :
            mods = [id \in Pids |-> IF id = r.th32ProcessID THEN content ELSE <<>>]
       /\ handles = <<ProcessObject(r.th32ProcessID, Main, "find")>>
       /\ owned = SetToBag({MkProcess(r.th32ProcessID, Decode(r.szExeFile), 1)})
  /\ pc = [t \in Threads |-> "idle"]
  /\ fn = [t \in Threads |-> "none"]
  /\ name = [t \in Threads |-> <<>>]
  /\ self = [t \in Threads |-> NoProcess]
  /\ snapshot = [t \in Threads |-> NULL_HANDLE]
  /\ entry = [t \in Threads |-> DefaultProcessEntry]
  /\ handle = [t \in Threads |-> NULL_HANDLE]
  /\ result = [t \in Threads |-> <<>>]
  /\ ret = [t \in Threads |-> NoRet]
  /\ calls = 0
  /\ mem = InitialMemory
  /\ lastWrite = NoWrite
  /\ lastRead = NoRead

NextModules ==
  \E t \in {Main} :
    \/ \E p \in BagToSet(owned), n \in Names : GetModuleCreateSnapshot(t, p, n)
    \/ GetModuleModule32Next(t)
    \/ GetModuleCloseHandle(t)
    \/ \E p \in BagToSet(owned) : GetAllModulesCreateSnapshot(t, p)
    \/ GetAllModulesModule32First(t)
    \/ GetAllModulesModule32Next(t)
    \/ GetAllModulesCloseHandle(t)
    \/ Return(t)

SpecModules == InitModules /\ [][NextModules]_vars

\* ------------------------------------------- Process::read, Process::write
\* Variant of Read whose buffer is not zero-initialised: the bytes the OS did
\* not copy hold whatever the buffer held.
Read_Uninitialized(t, p, address, n) ==
  /\ pc[t] = "idle"
  /\ BagIn(p, owned)
  /\ calls < MaxCalls
  /\ calls' = calls + 1
  /\ \E k \in Copyable(p.handle, address, n), junk \in ValueBytes :
       lastRead' = [op |-> "read", address |-> address, size |-> n,
                    outcome |-> Outcome(k, n),
                    value |-> [i \in 1..n |->
                                IF i <= k THEN mem[address + i - 1] ELSE junk]]
  /\ UNCHANGED <<procs, mods, handles, pc, locals, ret, owned, mem, lastWrite>>

\* let mut buffer = mem::zeroed::<T>(); ReadProcessMemory(self.handle,
\* address, &mut buffer, size_of::<T>(), None); buffer
\* The BOOL the OS returns is dropped.
Read(t, p, address, n) ==
  /\ pc[t] = "idle"
  /\ BagIn(p, owned)
  /\ calls < MaxCalls
  /\ calls' = calls + 1
  /\ \E k \in Copyable(p.handle, address, n) :
       lastRead' = [op |-> "read", address |-> address, size |-> n,
                    outcome |-> Outcome(k, n),
                    value |-> [i \in 1..n |->
                                IF i <= k THEN mem[address + i - 1] ELSE Zeroed(n)[i]]]
  /\ UNCHANGED <<procs, mods, handles, pc, locals, ret, owned, mem, lastWrite>>

\* Variant of Write that passes one byte less than size_of::<T>() to the OS.
Write_OneByteShort(t, p, value, address) ==
  /\ pc[t] = "idle"
  /\ BagIn(p, owned)
  /\ calls < MaxCalls
  /\ calls' = calls + 1
  /\ \E k \in Copyable(p.handle, address, Len(value)) :
       /\ mem' = [a \in MemAddrs |->
                   IF a >= address /\ a < address + k - 1
                   THEN value[a - address + 1] ELSE mem[a]]
       /\ lastWrite' = [op |-> "write", address |-> address, value |-> value,
                        outcome |-> Outcome(k, Len(value)), before |-> mem]
  /\ lastRead' = NoRead
  /\ UNCHANGED <<procs, mods, handles, pc, locals, ret, owned>>

\* WriteProcessMemory(self.handle, address, &value, size_of::<T>(), None);
\* the BOOL the OS returns is dropped and the function returns ().
Write(t, p, value, address) ==
  /\ pc[t] = "idle"
  /\ BagIn(p, owned)
  /\ calls < MaxCalls
  /\ calls' = calls + 1
  /\ \E k \in Copyable(p.handle, address, Len(value)) :
       /\ mem' = [a \in MemAddrs |->
                   IF a >= address /\ a < address + k
                   THEN value[a - address + 1] ELSE mem[a]]
       /\ lastWrite' = [op |-> "write", address |-> address, value |-> value,
                        outcome |-> Outcome(k, Len(value)), before |-> mem]
  /\ lastRead' = NoRead
  /\ UNCHANGED <<procs, mods, handles, pc, locals, ret, owned>>

\* The typed memory accessor, started in the state a successful find leaves.
InitMemory ==
  /\ \E r \in ProcRecords :
       /\ r.access = "ok"
       /\ r.th32ProcessID = 1
       /\ procs = <<r>>
       /\ handles = <<ProcessObject(r.th32ProcessID, Main, "find")>>
       /\ owned = SetToBag({MkProcess(r.th32ProcessID, Decode(r.szExeFile), 1)})
  /\ mods = [id \in Pids |-> <<>>]
  /\ pc = [t \in Threads |-> "idle"]
  /\ fn = [t \in Threads |-> "none"]
  /\ name = [t \in Threads |-> <<>>]
  /\ self = [t \in Threads |-> NoProcess]
  /\ snapshot = [t \in Threads |-> NULL_HANDLE]
  /\ entry = [t \in Threads |-> DefaultProcessEntry]
  /\ handle = [t \in Threads |-> NULL_HANDLE]
  /\ result = [t \in Threads |-> <<>>]
  /\ ret = [t \in Threads |-> NoRet]
  /\ calls = 0
  /\ mem = InitialMemory
  /\ lastWrite = NoWrite
  /\ lastRead = NoRead

NextMemory ==
  \E t \in {Main} :
    \/ \E p \in BagToSet(owned), a \in Addresses, n \in Sizes : Read(t, p, a, n)
    \/ \E p \in BagToSet(owned), v \in Values, a \in Addresses : Write(t, p, v, a)

SpecMemory == InitMemory /\ [][NextMemory]_vars

\* Name decoding through the four operations: one process and one module
\* whose name buffer is any buffer, in the state a successful find leaves.
InitNames ==
  /\ \E b \in NameBufs :
       /\ procs = <<[th32ProcessID |-> 1, szExeFile |-> b, access |-> "ok"]>>
       /\ mods = [id \in Pids |->
                    IF id = 1 THEN <<[szModule |-> b, modBaseAddr |-> 1]>> ELSE <<>>]
       /\ owned = SetToBag({MkProcess(1, Decode(b), 1)})
  /\ handles = <<ProcessObject(1, Main, "find")>>
  /\ pc = [t \in Threads |-> "idle"]
  /\ fn = [t \in Threads |-> "none"]
  /\ name = [t \in Threads |-> <<>>]
  /\ self = [t \in Threads |-> NoProcess]
  /\ snapshot = [t \in Threads |-> NULL_HANDLE]
  /\ entry = [t \in Threads |-> DefaultProcessEntry]
  /\ handle = [t \in Threads |-> NULL_HANDLE]
  /\ result = [t \in Threads |-> <<>>]
  /\ ret = [t \in Threads |-> NoRet]
  /\ calls = 0
  /\ mem = InitialMemory
  /\ lastWrite = NoWrite
  /\ lastRead = NoRead

\* The names a caller asks for: the names of the running images.
RunningNames == {Decode(procs[i].szExeFile) : i \in 1..Len(procs)}

NextNames ==
  \E t \in {Main} :
    \/ AllCreateSnapshot(t)
    \/ AllProcess32Next(t)
    \/ AllOpenProcess(t)
    \/ AllCloseHandle(t)
    \/ \E n \in RunningNames : FindCreateSnapshot(t, n)
    \/ FindProcess32Next(t)
    \/ FindOpenProcess(t)
    \/ FindCloseHandle(t)
    \/ \E p \in BagToSet(owned), n \in RunningNames : GetModuleCreateSnapshot(t, p, n)
    \/ GetModuleModule32Next(t)
    \/ GetModuleCloseHandle(t)
    \/ \E p \in BagToSet(owned) : GetAllModulesCreateSnapshot(t, p)
    \/ GetAllModulesModule32First(t)
    \/ GetAllModulesModule32Next(t)
    \/ GetAllModulesCloseHandle(t)
    \/ Return(t)

SpecNames == InitNames /\ [][NextNames]_vars

\* Two callers, each running one call, interleaved at their OS calls: a list
\* of two processes with the same name, the second of any accessibility, and
\* two modules, in the state a successful find of the first process leaves.
InitConcurrent ==
  /\ \E a \in Access :
       procs = <<[th32ProcessID |-> 1, szExeFile |-> Terminated(<<1>>, 0),
                  access |-> "ok"],
                 [th32ProcessID |-> 2, szExeFile |-> Terminated(<<1>>, MaxByte),
                  access |-> a]>>
  /\ mods = [id \in Pids |->
               IF id = 1
               THEN <<[szModule |-> Terminated(<<1>>, 0), modBaseAddr |-> 1],
                      [szModule |-> Terminated(<<1, 1>>, 0), modBaseAddr |-> 1]>>
               ELSE <<>>]
  /\ handles = <<ProcessObject(1, Main, "find")>>
  /\ owned = SetToBag({MkProcess(1, Decode(Terminated(<<1>>, 0)), 1)})
  /\ pc = [t \in Threads |-> "idle"]
  /\ fn = [t \in Threads |-> "none"]
  /\ name = [t \in Threads |-> <<>>]
  /\ self = [t \in Threads |-> NoProcess]
  /\ snapshot = [t \in Threads |-> NULL_HANDLE]
  /\ entry = [t \in Threads |-> DefaultProcessEntry]
  /\ handle = [t \in Threads |-> NULL_HANDLE]
  /\ result = [t \in Threads |-> <<>>]
  /\ ret = [t \in Threads |-> NoRet]
  /\ calls = 0
  /\ mem = InitialMemory
  /\ lastWrite = NoWrite
  /\ lastRead = NoRead

NextConcurrent ==
  \E t \in Threads :
    \/ AllCreateSnapshot(t)
    \/ AllProcess32Next(t)
    \/ AllOpenProcess(t)
    \/ AllCloseHandle(t)
    \/ \E n \in Names : FindCreateSnapshot(t, n)
    \/ FindProcess32Next(t)
    \/ FindOpenProcess(t)
    \/ FindCloseHandle(t)
    \/ \E p \in BagToSet(owned), n \in Names : GetModuleCreateSnapshot(t, p, n)
    \/ GetModuleModule32Next(t)
    \/ GetModuleCloseHandle(t)
    \/ \E p \in BagToSet(owned) : GetAllModulesCreateSnapshot(t, p)
    \/ GetAllModulesModule32First(t)
    \/ GetAllModulesModule32Next(t)
    \/ GetAllModulesCloseHandle(t)

SpecConcurrent == InitConcurrent /\ [][NextConcurrent]_vars

\* ------------------------------------------------------ snapshot lifecycle
HandleIds == 1..Len(handles)
IsSnapshot(h) == handles[h].kind \in {"snapshot_process", "snapshot_module"}
\* The call that created snapshot h has not returned yet.
InCall(h) ==
  /\ pc[handles[h].by] \notin {"idle", "done"}
  /\ snapshot[handles[h].by] = h
\* A snapshot acquired by operation f is still open after its call returned.
SnapshotLeaked(f) ==
  \E h \in HandleIds :
    /\ IsSnapshot(h)
    /\ handles[h].op = f
    /\ handles[h].open
    /\ ~InCall(h)
Returned(t, f) == pc[t] = "done" /\ fn[t] = f
SnapshotOpened(t) == snapshot[t] \in HandleIds

\* C1: whenever a find call has returned (match, NotFound, or failure to open
\* the matching process), the snapshot handle it opened has been released.
C1_FindReleasesSnapshot == ~SnapshotLeaked("find")

\* C2: whenever a get_all_modules call has returned, also through the early
\* return of an empty list, the module snapshot it opened has been released.
C2_GetAllModulesReleasesSnapshot ==
  \A t \in Threads :
    Returned(t, "get_all_modules") /\ SnapshotOpened(t)
      => ~handles[snapshot[t]].open

\* C3: whenever a get_module call has returned, with a Module or with
\* NotFound, the module snapshot it opened has been released.
C3_GetModuleReleasesSnapshot ==
  \A t \in Threads :
    Returned(t, "get_module") /\ SnapshotOpened(t)
      => handles[snapshot[t]].closes >= 1

\* C4: whenever an all call has returned, the process snapshot it opened has
\* been released, whatever the list held and whichever records were skipped.
C4_AllReleasesSnapshot ==
  \A h \in HandleIds :
    IsSnapshot(h) /\ handles[h].op = "all" /\ ~InCall(h)
      => ~handles[h].open /\ handles[h].closes = 1

\* An all call returned an empty result from a list of two records, every
\* one of them skipped, with its snapshot released.
C4_Witness ==
  \E t \in Threads :
    /\ Returned(t, "all")
    /\ SnapshotOpened(t)
    /\ Len(handles[snapshot[t]].content) >= 2
    /\ handles[snapshot[t]].cursor = Len(handles[snapshot[t]].content)
    /\ ret[t] = Ok(<<>>)
    /\ ~handles[snapshot[t]].open

\* -------------------------------------------------------- process registry
\* The records of a process list whose process can be opened, in list order.
RECURSIVE Accessible(_)
Accessible(l) ==
  IF l = <<>> THEN <<>>
  ELSE (IF Head(l).access = "ok" THEN <<Head(l)>> ELSE <<>>) \o Accessible(Tail(l))

\* The handle h is an open process handle on process id.
OpenHandleOn(h, id) ==
  /\ h \in HandleIds
  /\ handles[h].kind = "process"
  /\ handles[h].cursor = id
  /\ handles[h].open

\* C5: once its snapshot is open, an all call returns Ok with exactly one
\* Process (record id, decoded record name, valid handle on that process) per
\* record whose process could be opened, in snapshot order, and nothing for
\* the records whose process could not be opened.
C5_AllListsAccessible ==
  \A t \in Threads :
    Returned(t, "all") /\ SnapshotOpened(t) =>
      LET expected == Accessible(handles[snapshot[t]].content)
      IN  /\ ret[t].kind = "Ok"
          /\ Len(ret[t].value) = Len(expected)
          /\ \A i \in 1..Len(expected) :
               /\ ret[t].value[i].id = expected[i].th32ProcessID
               /\ ret[t].value[i].name = Decode(expected[i].szExeFile)
               /\ ~is_invalid(ret[t].value[i].handle)
               /\ OpenHandleOn(ret[t].value[i].handle, expected[i].th32ProcessID)

\* An all call returned one Process from a list of two records: the first
\* record was skipped because its process could not be opened.
C5_Witness ==
  \E t \in Threads :
    /\ Returned(t, "all")
    /\ SnapshotOpened(t)
    /\ Len(handles[snapshot[t]].content) = 2
    /\ handles[snapshot[t]].content[1].access # "ok"
    /\ ret[t].kind = "Ok"
    /\ Len(ret[t].value) = 1
    /\ ret[t].value[1].id = handles[snapshot[t]].content[2].th32ProcessID

\* Index of the first record of list l whose decoded name is n; 0 if none.
Matches(l, n) == {i \in 1..Len(l) : Decode(l[i].szExeFile) = n}
FirstMatch(l, n) ==
  IF Matches(l, n) = {} THEN 0
  ELSE CHOOSE i \in Matches(l, n) : \A j \in Matches(l, n) : i <= j

\* C6: a find call whose snapshot is open returns NotFound exactly when no
\* record's decoded name equals the name, and then only after the whole
\* snapshot was enumerated; a Process it returns carries the id and name of
\* the first matching record, and it returns one when that record's process
\* can be opened.
C6_FindFirstMatch ==
  \A t \in Threads :
    Returned(t, "find") /\ SnapshotOpened(t) =>
      LET content == handles[snapshot[t]].content
          i == FirstMatch(content, name[t])
      IN  /\ (ret[t] = Err("NotFound")) <=> (i = 0)
          /\ i = 0 => handles[snapshot[t]].cursor = Len(content)
          /\ ret[t].kind = "Ok" =>
               /\ i # 0
               /\ ret[t].value.id = content[i].th32ProcessID
               /\ ret[t].value.name = name[t]
               /\ OpenHandleOn(ret[t].value.handle, content[i].th32ProcessID)
          /\ (i # 0 /\ content[i].access = "ok") => ret[t].kind = "Ok"

\* A find call returned the first of two records that both carry the name.
C6_Witness ==
  \E t \in Threads :
    /\ Returned(t, "find")
    /\ SnapshotOpened(t)
    /\ Cardinality(Matches(handles[snapshot[t]].content, name[t])) = 2
    /\ ret[t].kind = "Ok"
    /\ ret[t].value.id = handles[snapshot[t]].content[1].th32ProcessID

\* The process handles acquired by caller t's find calls.
FindHandlesOf(t) ==
  {h \in HandleIds : handles[h].kind = "process" /\ handles[h].op = "find"
                     /\ handles[h].by = t}

\* C7: when the process of the first matching record cannot be opened, find
\* returns a failure other than NotFound, stops at that record, and opens no
\* process handle for a later record.
C7_FindPropagatesOpenFailure ==
  \A t \in Threads :
    Returned(t, "find") /\ SnapshotOpened(t) =>
      LET content == handles[snapshot[t]].content
          i == FirstMatch(content, name[t])
      IN  (i # 0 /\ content[i].access # "ok") =>
            /\ ret[t].kind = "Err"
            /\ ret[t].value \in {"Interrupted", "InvalidData"}
            /\ handles[snapshot[t]].cursor = i
            /\ \A h \in FindHandlesOf(t) : h < snapshot[t]

\* A find call failed on a first match that cannot be opened although a later
\* record with the same name can be.
C7_Witness ==
  \E t \in Threads :
    /\ Returned(t, "find")
    /\ SnapshotOpened(t)
    /\ LET content == handles[snapshot[t]].content
       IN  /\ Matches(content, name[t]) = {1, 2}
           /\ content[1].access # "ok"
           /\ content[2].access = "ok"
    /\ ret[t].kind = "Err"

\* C8: no Process value that all or find returned, or that a caller holds,
\* carries an invalid handle.
C8_NoInvalidHandleInProcess ==
  /\ \A p \in BagToSet(owned) : ~is_invalid(p.handle) /\ p.handle \in HandleIds
  /\ \A t \in Threads :
       \A i \in 1..Len(ReturnedProcesses(t)) :
         /\ ~is_invalid(ReturnedProcesses(t)[i].handle)
         /\ ReturnedProcesses(t)[i].handle \in HandleIds

\* find met an invalid process handle and turned it into a failure, while the
\* caller holds a Process from an earlier call.
C8_Witness ==
  \E t \in Threads :
    /\ Returned(t, "find")
    /\ is_invalid(handle[t])
    /\ ret[t] = Err("InvalidData")
    /\ BagCardinality(owned) >= 1

\* ----------------------------------------------------- process handle life
ProcessHandles == {h \in HandleIds : handles[h].kind = "process"}

\* C9: the handle of a Process value is open while a caller holds the value,
\* is released no more than once, and is released once every Process value
\* has been dropped.
C9_HandleReleasedOnDrop ==
  /\ \A p \in BagToSet(owned) : handles[p.handle].open
  /\ \A h \in ProcessHandles : handles[h].closes <= 1
  /\ (owned = EmptyBag /\ \A t \in Threads : pc[t] = "idle")
       => \A h \in ProcessHandles : ~handles[h].open

\* C10: no two Process values held by callers carry the same raw handle.
C10_SingleOwner ==
  \A p \in BagToSet(owned) :
    /\ CopiesIn(p, owned) <= 1
    /\ \A q \in BagToSet(owned) : p.handle = q.handle => p = q

\* ------------------------------------------------------- typed memory access
\* The n bytes of the target's memory at address a.
BytesAt(a, n) == [i \in 1..n |-> mem[a + i - 1]]

\* C11: read always returns a value of size_of(T) bytes: the bytes at the
\* address when the OS copy succeeded, all zeros when it failed. write always
\* returns, and a failed write leaves the target's memory as it was.
C11_ReadWriteNeverFail ==
  /\ lastRead.op = "read" =>
       /\ Len(lastRead.value) = lastRead.size
       /\ lastRead.outcome = "ok" =>
            lastRead.value = BytesAt(lastRead.address, lastRead.size)
       /\ lastRead.outcome = "fail" => lastRead.value = Zeroed(lastRead.size)
  /\ (lastWrite.op = "write" /\ lastWrite.outcome = "fail") =>
       mem = lastWrite.before

\* A read at the unmapped address failed and returned zeros, after a failed
\* write to the same address.
C11_Witness ==
  /\ lastWrite.op = "write"
  /\ lastWrite.outcome = "fail"
  /\ lastWrite.address = MemSize
  /\ lastRead.op = "read"
  /\ lastRead.outcome = "fail"
  /\ lastRead.address = MemSize
  /\ lastRead.value = Zeroed(lastRead.size)

\* C12: when a write succeeded and the next memory call is a successful read
\* of the same size at the same address, the read returns the written value;
\* a successful write changes no byte outside [address, address + size).
C12_WriteReadRoundTrip ==
  /\ (/\ lastWrite.op = "write" /\ lastWrite.outcome = "ok"
      /\ lastRead.op = "read" /\ lastRead.outcome = "ok"
      /\ lastRead.address = lastWrite.address
      /\ lastRead.size = Len(lastWrite.value))
       => lastRead.value = lastWrite.value
  /\ (lastWrite.op = "write" /\ lastWrite.outcome = "ok") =>
       \A a \in MemAddrs :
         (a < lastWrite.address \/ a >= lastWrite.address + Len(lastWrite.value))
           => mem[a] = lastWrite.before[a]

\* A two-byte value was written over memory that held other bytes and was
\* read back.
C12_Witness ==
  /\ lastWrite.op = "write" /\ lastWrite.outcome = "ok"
  /\ Len(lastWrite.value) = 2
  /\ \E a \in MemAddrs : mem[a] # lastWrite.before[a]
  /\ lastRead.op = "read" /\ lastRead.outcome = "ok"
  /\ lastRead.address = lastWrite.address
  /\ lastRead.value = lastWrite.value

\* ---------------------------------------------------------- module resolver
\* The prefix of a name buffer that precedes its first zero byte; the whole
\* buffer when it holds no zero byte.
ZeroPositions(buf) == {i \in 1..Len(buf) : buf[i] = 0}
PrefixLen(buf) ==
  IF ZeroPositions(buf) = {} THEN Len(buf)
  ELSE (CHOOSE i \in ZeroPositions(buf) : \A j \in ZeroPositions(buf) : i <= j) - 1
NameOf(buf) == [i \in 1..PrefixLen(buf) |-> buf[i]]

\* The listing of a module snapshot: one Module per record, in order.
Listing(content) ==
  [i \in 1..Len(content) |->
     MkModule(NameOf(content[i].szModule), content[i].modBaseAddr)]

\* C13: a get_all_modules call whose snapshot is open returns Ok with one
\* Module (decoded name, base address) per record of the snapshot, the first
\* record included, in enumeration order; for an empty snapshot it returns Ok
\* with the empty sequence.
C13_GetAllModulesListsEveryRecord ==
  \A t \in Threads :
    Returned(t, "get_all_modules") /\ SnapshotOpened(t) =>
      ret[t] = Ok(Listing(handles[snapshot[t]].content))

\* get_all_modules returned two Modules from a snapshot of two records whose
\* names differ.
C13_Witness ==
  \E t \in Threads :
    /\ Returned(t, "get_all_modules")
    /\ SnapshotOpened(t)
    /\ ret[t].kind = "Ok"
    /\ Len(ret[t].value) = 2
    /\ ret[t].value[1].name # ret[t].value[2].name
    /\ ret[t].value[1].name = NameOf(handles[snapshot[t]].content[1].szModule)

\* The positions of the listing whose Module has name n.
Listed(content, n) ==
  {i \in 1..Len(content) : Listing(content)[i].name = n}

\* C16: a get_module call whose snapshot is open succeeds exactly when the
\* listing of that snapshot holds a Module with the name, and then returns
\* the first listed Module with the name, the first record of the snapshot
\* included.
C16_LookupAgreesWithListing ==
  \A t \in Threads :
    Returned(t, "get_module") /\ SnapshotOpened(t) =>
      LET content == handles[snapshot[t]].content
          hits == Listed(content, name[t])
      IN  /\ ret[t].kind = "Ok" <=> hits # {}
          /\ ret[t].kind = "Ok" =>
               ret[t].value =
                 Listing(content)[CHOOSE i \in hits : \A j \in hits : i <= j]

\* ------------------------------------------------------ process handle owners
\* The process handles caller t's current call has acquired: the handles
\* issued to t after the call's snapshot.
OpenedByCall(t) ==
  {h \in ProcessHandles : h > snapshot[t] /\ handles[h].by = t /\ handles[h].open}
ReturnedHandles(t) ==
  {ReturnedProcesses(t)[i].handle : i \in 1..Len(ReturnedProcesses(t))}

\* C18: when all or find has returned, the process handles the call opened
\* are exactly the handles of the Process values it returned, one handle per
\* value: one for a successful find, none for a find that failed or found
\* nothing.
C18_NoOrphanProcessHandles ==
  \A t \in Threads :
    (pc[t] = "done" /\ fn[t] \in {"all", "find"} /\ SnapshotOpened(t)) =>
      /\ OpenedByCall(t) = ReturnedHandles(t)
      /\ Cardinality(OpenedByCall(t)) = Len(ReturnedProcesses(t))
      /\ fn[t] = "find" =>
           Cardinality(OpenedByCall(t)) = (IF ret[t].kind = "Ok" THEN 1 ELSE 0)

\* all returned two Process values with the same name, each with its own
\* handle, and opened no other handle.
C18_Witness ==
  \E t \in Threads :
    /\ Returned(t, "all")
    /\ SnapshotOpened(t)
    /\ ret[t].kind = "Ok"
    /\ Len(ret[t].value) = 2
    /\ ret[t].value[1].name = ret[t].value[2].name
    /\ Cardinality(OpenedByCall(t)) = 2

\* ------------------------------------------------------------ name decoding
\* The record of a process snapshot that carries process id `id`.
RecordOf(content, id) ==
  content[CHOOSE i \in 1..Len(content) : content[i].th32ProcessID = id]

\* C14: every name returned by all, find, get_module and get_all_modules is
\* the part of the record's name buffer before its first zero byte, byte for
\* byte, and the whole buffer when the buffer holds no zero byte.
C14_NamesStopAtFirstZero ==
  \A t \in Threads :
    (pc[t] = "done" /\ ret[t].kind = "Ok" /\ SnapshotOpened(t)) =>
      LET content == handles[snapshot[t]].content
      IN  /\ fn[t] = "all" =>
               \A i \in 1..Len(ret[t].value) :
                 ret[t].value[i].name =
                   NameOf(RecordOf(content, ret[t].value[i].id).szExeFile)
          /\ fn[t] = "find" =>
               ret[t].value.name = NameOf(RecordOf(content, ret[t].value.id).szExeFile)
          /\ fn[t] = "get_module" =>
               /\ ret[t].value.name = NameOf(entry[t].szModule)
               /\ \E i \in 1..Len(content) : content[i].szModule = entry[t].szModule
          /\ fn[t] = "get_all_modules" =>
               /\ Len(ret[t].value) = Len(content)
               /\ \A i \in 1..Len(content) :
                    ret[t].value[i].name = NameOf(content[i].szModule)

\* find returned a one-byte name from a buffer that holds a non-zero byte
\* after its first zero byte.
C14_Witness ==
  \E t \in Threads :
    /\ Returned(t, "find")
    /\ ret[t].kind = "Ok"
    /\ Len(ret[t].value.name) = 1
    /\ entry[t].szExeFile[2] = 0
    /\ entry[t].szExeFile[3] # 0

\* ------------------------------------------------- snapshot creation failure
\* A step in which caller t enters an operation and obtains no snapshot.
CreationFailed(t) ==
  /\ pc[t] = "idle"
  /\ pc'[t] # "idle"
  /\ snapshot'[t] \notin 1..Len(handles')

\* C15: in every one of the four operations, a call whose snapshot creation
\* fails or yields the invalid sentinel returns Err at once: the creating step
\* itself ends the call, and it leaves the handle table as it was, so that no
\* first/next call is made, no process handle is opened and nothing is
\* released.
C15_CreationFailureFailsAtOnce ==
  [][\A t \in Threads :
       CreationFailed(t) =>
         /\ pc'[t] = "done"
         /\ ret'[t] = Err("Interrupted")
         /\ handles' = handles]_vars

\* A get_module call returned Err on the invalid sentinel while the other
\* caller was in the middle of an enumeration.
C15_Witness ==
  \E t \in Threads, u \in Threads :
    /\ Returned(t, "get_module")
    /\ snapshot[t] = INVALID_HANDLE_VALUE
    /\ ret[t] = Err("Interrupted")
    /\ pc[u] \notin {"idle", "done"}
    /\ SnapshotOpened(u)

\* --------------------------------------------------- use of a snapshot handle
\* C17: no snapshot handle is released more than once, and no first/next call
\* is made on a snapshot handle after its release.
C17_SnapshotReleasedOnceNoUseAfter ==
  \A h \in HandleIds :
    IsSnapshot(h) => (handles[h].closes <= 1 /\ ~handles[h].staleUse)

\* A get_module call released its snapshot after having enumerated both
\* records, and returned.
C17_Witness ==
  \E t \in Threads :
    /\ Returned(t, "get_module")
    /\ SnapshotOpened(t)
    /\ ret[t].kind = "Ok"
    /\ handles[snapshot[t]].cursor = 2
    /\ handles[snapshot[t]].closes = 1
    /\ ~handles[snapshot[t]].open

\* ------------------------------------------------------- concurrent callers
\* What a call returns apart from the handle values, which the OS chooses.
Identity(p) == [id |-> p.id, name |-> p.name]
Observed(t) ==
  IF ret[t].kind # "Ok" THEN ret[t]
  ELSE IF fn[t] = "all"
       THEN Ok([i \in 1..Len(ret[t].value) |-> Identity(ret[t].value[i])])
  ELSE IF fn[t] = "find" THEN Ok(Identity(ret[t].value))
  ELSE ret[t]

\* The result of each operation run by a single caller on a snapshot of the
\* given content.
AloneAll(content) ==
  Ok([i \in 1..Len(Accessible(content)) |->
        [id |-> Accessible(content)[i].th32ProcessID,
         name |-> NameOf(Accessible(content)[i].szExeFile)]])

AloneFind(content, n) ==
  LET i == FirstMatch(content, n)
  IN  IF i = 0 THEN Err("NotFound")
      ELSE IF content[i].access = "err" THEN Err("Interrupted")
      ELSE IF content[i].access = "invalid" THEN Err("InvalidData")
      ELSE Ok([id |-> content[i].th32ProcessID, name |-> NameOf(content[i].szExeFile)])

\* get_module enumerating from position c on.
LookupFrom(content, n, c) ==
  LET hits == {i \in Listed(content, n) : i > c}
  IN  IF hits = {} THEN Err("NotFound")
      ELSE Ok(Listing(content)[CHOOSE i \in hits : \A j \in hits : i <= j])

\* The start of get_module's enumeration is the OS's choice.
AloneGetModule(content, n) ==
  {LookupFrom(content, n, c) : c \in {0, Min(1, Len(content)), Len(content)}}

AloneResults(t) ==
  IF ~SnapshotOpened(t) THEN {Err("Interrupted")}
  ELSE LET content == handles[snapshot[t]].content
       IN  IF fn[t] = "all" THEN {AloneAll(content)}
           ELSE IF fn[t] = "find" THEN {AloneFind(content, name[t])}
           ELSE IF fn[t] = "get_module" THEN AloneGetModule(content, name[t])
           ELSE {Ok(Listing(content))}

\* Caller u's call changes in the step.
Moved(u) ==
  \/ pc'[u] # pc[u]
  \/ snapshot'[u] # snapshot[u]
  \/ entry'[u] # entry[u]
  \/ handle'[u] # handle[u]
  \/ result'[u] # result[u]
  \/ ret'[u] # ret[u]

\* A step changes the call of one caller at most, and a snapshot only in a
\* step of the caller that created it, for the call that created it.
PrivateStep ==
  /\ Cardinality({u \in Threads : Moved(u)}) <= 1
  /\ \A h \in HandleIds :
       (IsSnapshot(h) /\ handles'[h] # handles[h]) =>
         /\ snapshot[handles[h].by] = h
         /\ \A v \in Threads \ {handles[h].by} : ~Moved(v)

\* C19: with two callers running enumeration operations concurrently, every
\* snapshot is advanced and released only by the call that created it, every
\* step touches the locals of one call only, and the result of each call is
\* a result the same call returns when it runs alone on the same snapshot
\* content.
C19_SnapshotSessionsPrivate ==
  /\ [](\A t \in Threads : pc[t] = "done" => Observed(t) \in AloneResults(t))
  /\ [][PrivateStep]_vars

\* Both callers returned Ok from calls that overlapped: one created its
\* snapshot after the other's, and the other opened a process handle later
\* still.
C19_Witness ==
  \E t \in Threads, u \in Threads :
    /\ t # u
    /\ Returned(t, "all") /\ ret[t].kind = "Ok"
    /\ Returned(u, "find") /\ ret[u].kind = "Ok"
    /\ SnapshotOpened(t) /\ SnapshotOpened(u)
    /\ snapshot[t] < snapshot[u]
    /\ \E h \in ProcessHandles : handles[h].by = t /\ h > ret[u].value.handle
====
